---- MODULE Spec2Model ----
(***************************************************************************)
(* Model of src/app.py: the market-status classifier                      *)
(* (check_market_status), the moving-average predictor                    *)
(* (predict_moving_average) and the button handler that drives them.      *)
(*                                                                         *)
(* Python objects live in a heap (object id -> DataFrame value) so that   *)
(* aliasing and copying of a DataFrame are distinguishable.  Dates are    *)
(* day numbers, day 0 being a Monday, so weekday(d) = d % 7.  A float is  *)
(* an exact rational [num, den]; NaN is 0/0.                               *)
(***************************************************************************)
EXTENDS Integers, Sequences, FiniteSets, TLC

VARIABLES
    pc,          \* control point of the running function / handler
    caller,      \* who called the function under execution
    heap,        \* object id -> DataFrame
    data,        \* predict_moving_average: parameter `data` (a reference)
    data0,       \* ghost: value of the caller's DataFrame at call entry
    days,        \* predict_moving_average: parameter `days`
    df,          \* predict_moving_average: local `df` (a reference, 0 = unbound)
    last_day,    \* predict_moving_average: local `last_day`
    last_ma,     \* predict_moving_average: local `last_ma`
    next_day,    \* predict_moving_average: local `next_day`
    ret,         \* predict_moving_average: returned pair
    fetch,       \* check_market_status: outcome of yf.Ticker(...).info
    info,        \* check_market_status: the snapshot mapping
    now,         \* check_market_status: datetime.datetime.now(), epoch seconds
    status,      \* result of check_market_status
    start_date,  \* sidebar input
    end_date,    \* sidebar input
    calls,       \* provider calls issued by the handler, in order
    ui,          \* widgets rendered by the handler, in order
    stock_data,  \* handler: local `stock_data` (a reference, 0 = unbound)
    escaped      \* TRUE iff an exception left the handler

vars == <<pc, caller, heap, data, data0, days, df, last_day, last_ma, next_day,
          ret, fetch, info, now, status, start_date, end_date, calls, ui,
          stock_data, escaped>>

predictVars == <<data, data0, days, df, last_day, last_ma, next_day, ret>>
statusVars  == <<fetch, info, now>>
driverVars  == <<start_date, end_date, calls, ui, stock_data, escaped>>

-----------------------------------------------------------------------------
(* Bounds of the model *)

MaxLen == 4        \* longest series handed to the predictor directly
MaxWindow == 3     \* largest window handed to the predictor directly
MaxClose == 2      \* close prices range over 1..MaxClose
NowBase == 1000    \* earliest value of the clock (epoch seconds)
MaxDate == 2       \* sidebar dates range over 0..MaxDate

(* Program constants *)

ma_days == 50
LiveThreshold == 300
TailRows == 20

-----------------------------------------------------------------------------
(* Small helpers *)

RECURSIVE SumSeq(_)
SumSeq(s) == IF s = <<>> THEN 0 ELSE s[1] + SumSeq(Tail(s))

Max(a, b) == IF a >= b THEN a ELSE b

NaN == [num |-> 0, den |-> 0]

None == <<>>

-----------------------------------------------------------------------------
(* pandas DataFrame: a DatetimeIndex and named columns of equal length *)

EmptyFrame == [index |-> <<>>, cols |-> [Close |-> <<>>]]

OHLCV(index, close, volume) ==
    [index |-> index,
     cols  |-> [Open |-> close, High |-> close, Low |-> close,
                Close |-> close, Volume |-> volume]]

FrameLen(f) == Len(f.index)

Columns(f) == DOMAIN f.cols

\* a plausible slip: DataFrame.head(n)
FrameHead(f, n) ==
    LET len == FrameLen(f)
        hi  == IF n < len THEN n ELSE len
    IN  [index |-> SubSeq(f.index, 1, hi),
         cols  |-> [c \in DOMAIN f.cols |-> SubSeq(f.cols[c], 1, hi)]]

\* DataFrame.tail(n)
FrameTail(f, n) ==
    LET len == FrameLen(f)
        lo  == Max(1, len - n + 1)
    IN  [index |-> SubSeq(f.index, lo, len),
         cols  |-> [c \in DOMAIN f.cols |-> SubSeq(f.cols[c], lo, len)]]

\* df[name] = column
SetColumn(f, name, column) ==
    [index |-> f.index,
     cols  |-> [c \in DOMAIN f.cols \cup {name} |->
                   IF c = name THEN column ELSE f.cols[c]]]

-----------------------------------------------------------------------------
(* Series.rolling(window).mean(): a sliding sum that adds the entering      *)
(* observation and removes the leaving one; the result is defined once     *)
(* `window` observations have accumulated (min_periods = window).          *)

RECURSIVE SlidingSum(_, _, _)
SlidingSum(close, window, i) ==
    IF i = 0 THEN 0
    ELSE SlidingSum(close, window, i - 1) + close[i]
         - (IF i > window THEN close[i - window] ELSE 0)

\* a plausible slip: the mean of everything seen so far
ExpandingMean(close, window) ==
    [i \in 1..Len(close) |->
        IF i < window THEN NaN
        ELSE [num |-> SumSeq(SubSeq(close, 1, i)), den |-> i]]

RollingMean(close, window) ==
    [i \in 1..Len(close) |->
        IF i < window THEN NaN
        ELSE [num |-> SlidingSum(close, window, i), den |-> window]]

-----------------------------------------------------------------------------
(* predict_moving_average(data, days) *)

\* a plausible slip: only an empty frame counts as insufficient
OnlyEmptyIsInsufficient(n, window) == n = 0

\* line 64: len(data) < days
InsufficientData(n, window) == n < window

\* a plausible slip: df = data (no copy), so df is the caller's object
AliasRef(h, ref) == ref

\* the id of the next object allocated
NewRef(h) ==
    IF DOMAIN h = {} THEN 1
    ELSE (CHOOSE m \in DOMAIN h : \A o \in DOMAIN h : o <= m) + 1

\* line 68: df = data.copy() binds df to a fresh object
CopyRef(h, ref) == NewRef(h)

Weekday(d) == d % 7

\* a plausible slip: only Sunday is skipped
SundayOnly(d) == Weekday(d) > 5

\* line 80: next_day.weekday() >= 5
IsWeekend(d) == Weekday(d) >= 5

\* lines 64-65
MA_Insufficient ==
    /\ pc = "ma_entry"
    /\ InsufficientData(FrameLen(heap[data]), days)
    /\ ret' = [prediction_df |-> None, frame |-> data]
    /\ pc' = IF caller = "driver" THEN "render" ELSE "returned"
    /\ UNCHANGED <<caller, heap, data, data0, days, df, last_day, last_ma,
                   next_day, status>>
    /\ UNCHANGED statusVars
    /\ UNCHANGED driverVars

\* lines 68-78
MA_Compute ==
    /\ pc = "ma_entry"
    /\ ~InsufficientData(FrameLen(heap[data]), days)
    /\ LET ref   == CopyRef(heap, data)
           ma    == RollingMean(heap[data].cols.Close, days)
           frame == SetColumn(heap[data], "MA", ma)
       IN  /\ df' = ref
           /\ heap' = [o \in DOMAIN heap \cup {ref} |->
                          IF o = ref THEN frame ELSE heap[o]]
           /\ last_day' = frame.index[FrameLen(frame)]
           /\ last_ma' = frame.cols.MA[FrameLen(frame)]
           /\ next_day' = frame.index[FrameLen(frame)] + 1
    /\ pc' = "ma_loop"
    /\ UNCHANGED <<caller, data, data0, days, ret, status>>
    /\ UNCHANGED statusVars
    /\ UNCHANGED driverVars

\* lines 80-81
MA_SkipWeekend ==
    /\ pc = "ma_loop"
    /\ IsWeekend(next_day)
    /\ next_day' = next_day + 1
    /\ UNCHANGED <<pc, caller, heap, data, data0, days, df, last_day, last_ma,
                   ret, status>>
    /\ UNCHANGED statusVars
    /\ UNCHANGED driverVars

\* lines 84-85
MA_Return ==
    /\ pc = "ma_loop"
    /\ ~IsWeekend(next_day)
    /\ ret' = [prediction_df |-> <<[index |-> next_day, Close |-> last_ma]>>,
               frame |-> df]
    /\ pc' = IF caller = "driver" THEN "render" ELSE "returned"
    /\ UNCHANGED <<caller, heap, data, data0, days, df, last_day, last_ma,
                   next_day, status>>
    /\ UNCHANGED statusVars
    /\ UNCHANGED driverVars

-----------------------------------------------------------------------------
(* check_market_status(ticker_symbol) *)

Absent == "<absent>"

Report(message, color) == [exc |-> FALSE, message |-> message, color |-> color]

\* an exception of class e on its way out of the function
Raised(e) == [exc |-> TRUE, message |-> e, color |-> ""]

NoStatus == [exc |-> FALSE, message |-> "", color |-> ""]

\* a timestamp value: kind is the Python type of info['regularMarketTime']
\* ("absent": no such key; "bigint": an int beyond what fromtimestamp accepts);
\* val is the number (for "str": the length of the string)
TS(kind, val) == [kind |-> kind, val |-> val]

\* line 39: `if ts:` (None, 0, 0.0 and "" are falsy)
Truthy(ts) ==
    /\ ts.kind \notin {"absent", "None"}
    /\ (ts.kind = "bigint" \/ ts.val # 0)

Pad2(x) == IF x < 10 THEN "0" \o ToString(x) ELSE ToString(x)

\* dt.strftime('%H:%M:%S')
StrfTime(t) ==
    LET s == t % 86400
    IN  Pad2(s \div 3600) \o ":" \o Pad2((s % 3600) \div 60) \o ":" \o Pad2(s % 60)

\* a plausible slip: PRE and POST are not taken for live
RegularOnly(market_state) == market_state = "REGULAR"

\* line 30
IsLiveState(market_state) == market_state \in {"PRE", "REGULAR", "POST"}

\* a plausible slip: <= instead of <
RecentInclusive(diff) == diff <= LiveThreshold

\* line 49: diff.total_seconds() < 300
Recent(diff) == diff < LiveThreshold

\* lines 28-52: the classification once the snapshot is at hand
Classify(i, n) ==
    LET market_state == IF i.marketState = Absent THEN "UNKNOWN" ELSE i.marketState
        ts == i.regularMarketTime
    IN  IF IsLiveState(market_state) THEN Report("Market is LIVE", "green")
        ELSE IF market_state = "CLOSED" THEN Report("Market is CLOSED", "red")
        ELSE IF Truthy(ts)
             THEN IF ts.kind = "bigint" THEN Raised("OverflowError")
                  ELSE IF ts.kind = "int"
                       THEN IF Recent(n - ts.val)
                            THEN Report("Market is LIVE (Updated "
                                        \o StrfTime(ts.val) \o ")", "green")
                            ELSE Report("Status: " \o market_state, "orange")
                       ELSE Report("Status: " \o market_state
                                   \o " (Time data format error)", "orange")
             ELSE Report("Status: " \o market_state, "orange")

\* what a provider call can raise: no connection, an invalid ticker, a
\* malformed response
Failures == {"ConnectionError", "KeyError", "ValueError"}

Outcomes == {"ok"} \cup Failures

\* a plausible slip: a handler that names one exception class
OnlyValueError(e) == e = "ValueError"

\* lines 54 and 231: `except Exception` catches every Exception subclass
IsException(e) == e \in Failures \cup {"OverflowError"}

\* lines 25-52: the body of the try block
TryBody(f, i, n) == IF f # "ok" THEN Raised(f) ELSE Classify(i, n)

\* a plausible slip: no try around the body
WithoutExcept(f, i, n) == TryBody(f, i, n)

\* lines 24-56: try ... except Exception
CheckMarketStatus(f, i, n) ==
    IF TryBody(f, i, n).exc /\ IsException(TryBody(f, i, n).message)
    THEN Report("Could not check market status", "red")
    ELSE TryBody(f, i, n)

MarketStates == {Absent, "PRE", "REGULAR", "POST", "CLOSED", "PREPRE", "POSTPOST"}

Timestamps(n) ==
    {TS("absent", 0), TS("None", 0), TS("bigint", 0),
     TS("float", n), TS("float", 0), TS("str", 1), TS("str", 0), TS("int", 0)}
    \cup {TS("int", n - d) : d \in {-1, 0, 1, LiveThreshold - 1, LiveThreshold,
                                    LiveThreshold + 1}}

Clock == {NowBase, NowBase + 1}

NoInfo == [marketState |-> Absent, regularMarketTime |-> TS("absent", 0)]

CMS_Call ==
    /\ pc = "cms_entry"
    /\ status' = CheckMarketStatus(fetch, info, now)
    /\ pc' = "returned"
    /\ UNCHANGED <<caller, heap>>
    /\ UNCHANGED predictVars
    /\ UNCHANGED statusVars
    /\ UNCHANGED driverVars

-----------------------------------------------------------------------------
(* The button handler, lines 108-233 *)

NoFigure == <<>>

Widget(widget, text, traces, frame) ==
    [widget |-> widget, text |-> text, traces |-> traces, frame |-> frame]

Text(widget, text) == Widget(widget, text, NoFigure, EmptyFrame)

Trace(type, name, x, y) == [type |-> type, name |-> name, x |-> x, y |-> y]

Call(api, ok) == [api |-> api, ok |-> ok]

\* lines 231-233: except Exception as e
OuterExcept(u, e) ==
    IF IsException(e)
    THEN Append(u, Text("error",
                "An unexpected error occurred during data fetching: " \o e))
    ELSE u

\* a plausible slip: equal dates pass the validation
StrictlyAfter(s, e) == s > e

\* line 110: start_date >= end_date
InvalidRange(s, e) == s >= e

\* line 140
result_df == ret.prediction_df
chart_data == ret.frame

\* lines 110-111
D_Reject ==
    /\ pc = "idle"
    /\ InvalidRange(start_date, end_date)
    /\ ui' = Append(ui, Text("error", "Start Date must be before End Date."))
    /\ pc' = "done"
    /\ UNCHANGED <<caller, heap, status, start_date, end_date, calls,
                   stock_data, escaped>>
    /\ UNCHANGED predictVars
    /\ UNCHANGED statusVars

\* lines 114-118
D_Status ==
    /\ pc = "idle"
    /\ ~InvalidRange(start_date, end_date)
    /\ \E f \in Outcomes, ms \in MarketStates, n \in Clock :
         \E ts \in Timestamps(n) :
           LET i == [marketState |-> ms, regularMarketTime |-> ts]
               r == CheckMarketStatus(f, i, n)
           IN  /\ calls' = Append(calls, Call("Ticker.info", f = "ok"))
               /\ status' = r
               /\ escaped' = (r.exc /\ ~IsException(r.message))
               /\ IF r.exc
                  THEN /\ ui' = OuterExcept(Append(ui, Text("subheader", "Data for ticker")),
                                            r.message)
                       /\ pc' = "done"
                  ELSE /\ ui' = ui \o <<Text("subheader", "Data for ticker"),
                                        Text("markdown", "### Market Status: :" \o r.color
                                             \o "[" \o r.message \o "]")>>
                       /\ pc' = "download"
    /\ UNCHANGED <<caller, heap, start_date, end_date, stock_data>>
    /\ UNCHANGED predictVars
    /\ UNCHANGED statusVars

DriverLens == {0, 1, ma_days - 1, ma_days, ma_days + 1}

DriverFrame(n, d0) ==
    OHLCV([i \in 1..n |-> d0 + i - 1], [i \in 1..n |-> 99 + i], [i \in 1..n |-> 1000 + i])

\* line 121, yf.download raising
D_DownloadFails ==
    /\ pc = "download"
    /\ calls' = Append(calls, Call("download", FALSE))
    /\ \E e \in Failures :
         /\ ui' = OuterExcept(ui, e)
         /\ escaped' = ~IsException(e)
    /\ pc' = "done"
    /\ UNCHANGED <<caller, heap, status, start_date, end_date, stock_data>>
    /\ UNCHANGED predictVars
    /\ UNCHANGED statusVars

\* lines 121-124
D_Download ==
    /\ pc = "download"
    /\ \E n \in DriverLens, d0 \in 0..6 :
         LET ref == NewRef(heap)
         IN  /\ heap' = [o \in DOMAIN heap \cup {ref} |->
                            IF o = ref THEN DriverFrame(n, d0) ELSE heap[o]]
             /\ stock_data' = ref
             /\ IF n = 0
                THEN /\ ui' = Append(ui, Text("error",
                              "No data found for this ticker in the selected date range."))
                     /\ pc' = "done"
                ELSE /\ ui' = ui
                     /\ pc' = "metrics"
    /\ calls' = Append(calls, Call("download", TRUE))
    /\ UNCHANGED <<caller, status, start_date, end_date, escaped>>
    /\ UNCHANGED predictVars
    /\ UNCHANGED statusVars

\* line 128, yf.Ticker(...).info raising
D_MetricsFails ==
    /\ pc = "metrics"
    /\ calls' = Append(calls, Call("Ticker.info", FALSE))
    /\ \E e \in Failures :
         /\ ui' = OuterExcept(ui, e)
         /\ escaped' = ~IsException(e)
    /\ pc' = "done"
    /\ UNCHANGED <<caller, heap, status, start_date, end_date, stock_data>>
    /\ UNCHANGED predictVars
    /\ UNCHANGED statusVars

\* dict.get(key, default); in the model a field value of 0 stands for a key
\* that the snapshot does not hold
Get(v, default) == IF v = 0 THEN default ELSE v

\* lines 128-140: the metrics, then the call of predict_moving_average
D_Metrics ==
    /\ pc = "metrics"
    /\ calls' = Append(calls, Call("Ticker.info", TRUE))
    /\ \E currentPrice \in {0, 7}, volume \in {0, 8}, fiftyTwoWeekHigh \in {0, 9} :
         LET close == heap[stock_data].cols.Close
             current_price == Get(currentPrice, close[Len(close)])
         IN  ui' = ui \o <<Text("metric", "Current Price $" \o ToString(current_price)),
                           Text("metric", "Volume " \o ToString(volume)),
                           Text("metric", "52 Week High $" \o ToString(fiftyTwoWeekHigh))>>
    /\ data' = stock_data
    /\ data0' = heap[stock_data]
    /\ days' = ma_days
    /\ pc' = "ma_entry"
    /\ UNCHANGED <<caller, heap, status, start_date, end_date, stock_data, escaped,
                   df, last_day, last_ma, next_day, ret>>
    /\ UNCHANGED statusVars

\* lines 228-229
RawTable(u) ==
    u \o <<Text("subheader", "Raw Data (Last 20 Entries)"),
           Widget("dataframe", "", NoFigure, FrameTail(heap[stock_data], TailRows))>>

\* lines 142-207 and 228-229
D_RenderPrediction ==
    /\ pc = "render"
    /\ result_df # None
    /\ LET cd == heap[chart_data]
           sd == heap[stock_data]
           fig == <<Trace("Candlestick", "Price", cd.index, cd.cols.Close),
                    Trace("Scatter", "MA", cd.index, cd.cols.MA),
                    Trace("Scatter", "MA Prediction",
                          <<result_df[1].index>>, <<result_df[1].Close>>),
                    Trace("Bar", "Volume", sd.index, sd.cols.Volume)>>
       IN  ui' = RawTable(ui \o <<Text("success", "Predicted Close"),
                                  Widget("plotly_chart", "Stock Price, MA, & Prediction",
                                         fig, EmptyFrame)>>)
    /\ pc' = "done"
    /\ UNCHANGED <<caller, heap, status, start_date, end_date, calls, stock_data, escaped>>
    /\ UNCHANGED predictVars
    /\ UNCHANGED statusVars

\* lines 209-224 and 228-229
D_RenderInsufficient ==
    /\ pc = "render"
    /\ result_df = None
    /\ LET sd == heap[stock_data]
           fig_basic == <<Trace("Candlestick", "Price", sd.index, sd.cols.Close)>>
       IN  ui' = RawTable(ui \o <<Text("warning",
                                    "Not enough data to calculate the " \o ToString(ma_days)
                                    \o "-Day Moving Average. Need at least "
                                    \o ToString(ma_days)
                                    \o " data points. Please extend the date range."),
                                  Widget("plotly_chart", "Candlestick Chart",
                                         fig_basic, EmptyFrame)>>)
    /\ pc' = "done"
    /\ UNCHANGED <<caller, heap, status, start_date, end_date, calls, stock_data, escaped>>
    /\ UNCHANGED predictVars
    /\ UNCHANGED statusVars

-----------------------------------------------------------------------------
(* Entry points *)

NoRet == [prediction_df |-> None, frame |-> 0]

IdlePredict ==
    /\ data = 0 /\ data0 = EmptyFrame /\ days = 0 /\ df = 0
    /\ last_day = 0 /\ last_ma = NaN /\ next_day = 0 /\ ret = NoRet

IdleStatus == fetch = "ok" /\ info = NoInfo /\ now = NowBase

IdleDriver ==
    /\ start_date = 0 /\ end_date = 0 /\ calls = <<>> /\ ui = <<>>
    /\ stock_data = 0 /\ escaped = FALSE

\* a direct call predict_moving_average(data, days) on any series and window
InitPredict ==
    /\ pc = "ma_entry" /\ caller = "harness"
    /\ \E n \in 0..MaxLen, d0 \in 0..6 :
         \E close \in [1..n -> 1..MaxClose] :
           LET f == OHLCV([i \in 1..n |-> d0 + i - 1], close, [i \in 1..n |-> i])
           IN  /\ heap = [o \in {1} |-> f]
               /\ data0 = f
    /\ data = 1
    /\ days \in 1..MaxWindow
    /\ df = 0 /\ last_day = 0 /\ last_ma = NaN /\ next_day = 0 /\ ret = NoRet
    /\ status = NoStatus
    /\ IdleStatus /\ IdleDriver

\* a direct call check_market_status(ticker) on any snapshot
InitStatus ==
    /\ pc = "cms_entry" /\ caller = "harness"
    /\ heap = [o \in {} |-> EmptyFrame]
    /\ fetch \in Outcomes
    /\ now \in Clock
    /\ \E ms \in MarketStates, ts \in Timestamps(now) :
         info = [marketState |-> ms, regularMarketTime |-> ts]
    /\ status = NoStatus
    /\ IdlePredict /\ IdleDriver

\* a press of "Get Data & Predict" with the sidebar's dates
InitDriver ==
    /\ pc = "idle" /\ caller = "driver"
    /\ heap = [o \in {} |-> EmptyFrame]
    /\ start_date \in 0..MaxDate
    /\ end_date \in 0..MaxDate
    /\ calls = <<>> /\ ui = <<>> /\ stock_data = 0 /\ escaped = FALSE
    /\ status = NoStatus
    /\ IdlePredict /\ IdleStatus

Init == InitPredict \/ InitStatus \/ InitDriver

Next ==
    \/ MA_Insufficient
    \/ MA_Compute
    \/ MA_SkipWeekend
    \/ MA_Return
    \/ CMS_Call
    \/ D_Reject
    \/ D_Status
    \/ D_DownloadFails
    \/ D_Download
    \/ D_MetricsFails
    \/ D_Metrics
    \/ D_RenderPrediction
    \/ D_RenderInsufficient

Spec == Init /\ [][Next]_vars

-----------------------------------------------------------------------------
(* Properties *)

\* predict_moving_average has returned (to the harness or to the handler)
HasReturned == ret.frame # 0

\* the series the caller handed in, as it was at the call
RawLen == FrameLen(data0)
RawClose == data0.cols.Close
RawLastDay == data0.index[RawLen]

\* check_market_status has returned to the harness
StatusReturned == caller = "harness" /\ pc = "returned" /\ status # NoStatus

MarketState == info.marketState
Timestamp == info.regularMarketTime
Recognized == {"PRE", "REGULAR", "POST", "CLOSED"}

ErrorReport == Report("Could not check market status", "red")

Widgets(w) == {k \in 1..Len(ui) : ui[k].widget = w}

\* C1: whenever a prediction is returned, its value is the arithmetic mean of
\* the last `days` close values of the caller's series, ending at the last bar.
C1_PredictionIsTrailingMean ==
    (HasReturned /\ ret.prediction_df # None) =>
        LET v == ret.prediction_df[1].Close
        IN  /\ RawLen >= days
            /\ v.den # 0
            /\ v.num * days = SumSeq(SubSeq(RawClose, RawLen - days + 1, RawLen)) * v.den

\* C1 witness: a direct call returned a prediction for a series longer than the
\* window whose first and last closes differ.
C1_Witness ==
    /\ caller = "harness" /\ HasReturned /\ ret.prediction_df # None
    /\ RawLen > days
    /\ RawClose[1] # RawClose[RawLen]

\* C2: the predicted date is never a Saturday or Sunday, is strictly after the
\* series' last date and at most 3 calendar days after it; while the loop runs
\* the candidate date stays within those 3 days, and a weekend candidate is
\* strictly less than 3 days out, so the loop ends after at most two steps.
C2_NextBusinessDay ==
    /\ pc = "ma_loop" =>
          /\ last_day = RawLastDay
          /\ next_day > last_day
          /\ next_day <= last_day + 3
          /\ (Weekday(next_day) \in {5, 6} => next_day < last_day + 3)
    /\ (HasReturned /\ ret.prediction_df # None) =>
          LET d == ret.prediction_df[1].index
          IN  /\ Weekday(d) \notin {5, 6}
              /\ d > RawLastDay
              /\ d <= RawLastDay + 3

\* C2 witness: the last bar is a Friday and the prediction is dated the Monday
\* three days later.
C2_Witness ==
    /\ HasReturned /\ ret.prediction_df # None
    /\ Weekday(RawLastDay) = 4
    /\ ret.prediction_df[1].index = RawLastDay + 3

\* C3: for a series shorter than the window the call returns no prediction and
\* hands back the caller's own object, unchanged and without an MA column; no
\* augmented series exists anywhere.
C3_InsufficientData ==
    (HasReturned /\ RawLen < days) =>
        /\ ret.prediction_df = None
        /\ ret.frame = data
        /\ heap[ret.frame] = data0
        /\ \A o \in DOMAIN heap : "MA" \notin Columns(heap[o])

\* C3 witness: a direct call on the empty series has returned.
C3_Witness ==
    /\ caller = "harness" /\ HasReturned
    /\ RawLen = 0

\* C4: the caller's series is never changed by the call: at every point during
\* and after it the caller's object holds the rows and columns it held at the
\* call; the MA column is on another object; the volume bars and the last-20
\* table of the handler are drawn from the series without the MA column.
C4_CallerSeriesUntouched ==
    /\ data # 0 =>
          /\ heap[data] = data0
          /\ "MA" \notin Columns(heap[data])
    /\ df # 0 => (df # data /\ "MA" \in Columns(heap[df]))
    /\ \A k \in 1..Len(ui) :
          /\ ui[k].widget = "dataframe" =>
                /\ "MA" \notin Columns(ui[k].frame)
                /\ Columns(ui[k].frame) = Columns(data0)
          /\ \A t \in 1..Len(ui[k].traces) :
                ui[k].traces[t].type = "Bar" =>
                   /\ ui[k].traces[t].x = data0.index
                   /\ ui[k].traces[t].y = data0.cols.Volume

\* C4 witness: the handler has rendered a prediction, its volume bars and the
\* table.
C4_Witness ==
    /\ caller = "driver" /\ pc = "done"
    /\ HasReturned /\ ret.prediction_df # None
    /\ Widgets("dataframe") # {}

\* C5: with the market state missing or unrecognized and an integer epoch
\* timestamp present, the report is green (live) when now - timestamp < 300
\* seconds and orange (unknown) when it is 300 seconds or more.
C5_RecentTradeIsLive ==
    (/\ StatusReturned /\ fetch = "ok"
     /\ MarketState \notin Recognized
     /\ Timestamp.kind = "int") =>
        /\ (now - Timestamp.val < 300 => status.color = "green")
        /\ (now - Timestamp.val >= 300 => status.color = "orange")

\* C5 witness: a report for an unrecognized state whose last trade is exactly
\* 300 seconds old.
C5_Witness ==
    /\ StatusReturned /\ fetch = "ok"
    /\ MarketState = "PREPRE"
    /\ Timestamp.kind = "int"
    /\ now - Timestamp.val = 300

\* C6: for a recognized market state the state alone decides the report,
\* whatever the timestamp: PRE, REGULAR and POST give ("Market is LIVE", green)
\* and CLOSED gives ("Market is CLOSED", red).
C6_RecognizedStateDecides ==
    (StatusReturned /\ fetch = "ok") =>
        /\ (MarketState \in {"PRE", "REGULAR", "POST"}
               => status = Report("Market is LIVE", "green"))
        /\ (MarketState = "CLOSED"
               => status = Report("Market is CLOSED", "red"))

\* C6 witness: state PRE with a timestamp that is not an integer.
C6_Witness ==
    /\ StatusReturned /\ fetch = "ok"
    /\ MarketState = "PRE"
    /\ Timestamp.kind = "str" /\ Timestamp.val # 0

\* C7: check_market_status never raises; a failed fetch gives exactly
\* ("Could not check market status", red); a snapshot with no market state and
\* no timestamp gives orange (unknown); and for every snapshot whose timestamp,
\* if an integer, is one fromtimestamp accepts, the colour is the ladder's:
\* green for PRE/REGULAR/POST, red for CLOSED, else green exactly when a
\* non-zero integer timestamp is less than 300 seconds old, else orange.
C7_NeverRaises ==
    StatusReturned =>
        /\ ~status.exc
        /\ status.color \in {"green", "red", "orange"}
        /\ (fetch # "ok" => status = ErrorReport)
        /\ (fetch = "ok" /\ MarketState = Absent /\ Timestamp.kind = "absent"
               => status = Report("Status: UNKNOWN", "orange"))
        /\ (fetch = "ok" /\ Timestamp.kind # "bigint") =>
              status.color =
                 IF MarketState \in {"PRE", "REGULAR", "POST"} THEN "green"
                 ELSE IF MarketState = "CLOSED" THEN "red"
                 ELSE IF /\ Timestamp.kind = "int" /\ Timestamp.val # 0
                         /\ now - Timestamp.val < 300
                      THEN "green"
                 ELSE "orange"

\* C7 witness: the fetch of the snapshot failed and a report came back.
C7_Witness ==
    /\ StatusReturned
    /\ fetch = "KeyError"

\* C8: a trigger with start >= end issues no provider call at any point and
\* ends with the validation message as its only output.
C8_RejectBeforeAnyCall ==
    (caller = "driver" /\ start_date >= end_date) =>
        /\ calls = <<>>
        /\ pc \in {"idle", "done"}
        /\ pc = "done" =>
              ui = <<Text("error", "Start Date must be before End Date.")>>

\* C8 witness: the handler finished on equal start and end dates.
C8_Witness ==
    /\ caller = "driver" /\ pc = "done"
    /\ start_date = end_date

\* the handler went through the prediction step with a series of 1..49 bars
ShortSeriesRendered ==
    /\ caller = "driver" /\ pc = "done" /\ HasReturned
    /\ RawLen > 0 /\ RawLen < ma_days

HasTrace(w, type) == \E t \in 1..Len(w.traces) : w.traces[t].type = type

\* C9 as stated: with a non-empty series of fewer than 50 bars the chart shown
\* holds the candlesticks and the volume bars.
C9_Original_ChartHasVolumeBars ==
    ShortSeriesRendered =>
        /\ Widgets("warning") # {}
        /\ \E k \in Widgets("plotly_chart") :
              /\ HasTrace(ui[k], "Candlestick")
              /\ HasTrace(ui[k], "Bar")
              /\ ~HasTrace(ui[k], "Scatter")
        /\ Widgets("dataframe") # {}

\* C9 amended: once the handler reaches the prediction step with a non-empty
\* series of fewer than 50 bars it renders the warning that 50 data points are
\* needed, one chart holding only the candlesticks of the raw series (no volume
\* bars, no moving-average line, no marker), and last the table of the last 20
\* raw bars.
C9_DegradedOutcome ==
    ShortSeriesRendered =>
        /\ \E k \in Widgets("warning") :
              ui[k].text = "Not enough data to calculate the 50-Day Moving Average. "
                           \o "Need at least 50 data points. Please extend the date range."
        /\ Widgets("success") = {}
        /\ Cardinality(Widgets("plotly_chart")) = 1
        /\ \A k \in Widgets("plotly_chart") :
              ui[k].traces = <<Trace("Candlestick", "Price", data0.index, RawClose)>>
        /\ ui[Len(ui)].widget = "dataframe"
        /\ LET table == ui[Len(ui)].frame
               first == IF RawLen > 20 THEN RawLen - 19 ELSE 1
           IN  /\ table.index = SubSeq(data0.index, first, RawLen)
               /\ table.cols.Close = SubSeq(RawClose, first, RawLen)
               /\ "MA" \notin Columns(table)

\* C9 witness: the handler finished on a series of 49 bars.
C9_Witness ==
    /\ ShortSeriesRendered
    /\ RawLen = ma_days - 1

\* C10: whatever the provider calls do, no exception leaves the handler and it
\* ends on a display value: an error message when a call after the status
\* fetch failed, the "no data" message, or the table.  A failed status fetch
\* becomes the error report and the download is still issued next.
C10_FailuresEndInline ==
    caller = "driver" =>
        /\ ~escaped
        /\ ~status.exc
        /\ (pc # "done" => ENABLED Next)
        /\ (pc = "done" => (ui # <<>> /\ ui[Len(ui)].widget \in {"error", "dataframe"}))
        /\ (pc = "done" /\ calls # <<>> /\ ~calls[Len(calls)].ok)
              => ui[Len(ui)].widget = "error"
        /\ (calls # <<>> /\ ~calls[1].ok) =>
              /\ status = ErrorReport
              /\ pc # "done" \/ (Len(calls) >= 2 /\ calls[2].api = "download")

\* C10 witness: the status fetch failed, the download and the metrics fetch
\* succeeded, and the handler ended on the table.
C10_Witness ==
    /\ caller = "driver" /\ pc = "done"
    /\ Len(calls) = 3
    /\ ~calls[1].ok /\ calls[2].ok /\ calls[3].ok
    /\ ui[Len(ui)].widget = "dataframe"

====
